---- MODULE Spec2Model ----
(***************************************************************************)
(* A model of friday-tasks: the task extraction call (task_extract.py,     *)
(* generate), the JSON persistence sink (email_task_integration.py,        *)
(* save_tasks_to_json) and the batch orchestrator (batch_processor.py,     *)
(* process_emails_in_batches).                                             *)
(*                                                                         *)
(* Three specifications share the variables:                               *)
(*   SpecGenerate  one call of generate, one action per loop iteration     *)
(*   SpecSave      a sequence of save_tasks_to_json calls on one file      *)
(*   SpecBatch     one run of process_emails_in_batches                    *)
(***************************************************************************)
EXTENDS Integers, Sequences, FiniteSets, TLC

VARIABLES
    \* ---- generate (task_extract.py) ----
    pc,          \* "requesting" | "done"
    attempt,     \* the for loop's variable
    requests,    \* number of generate_content calls made
    sleeps,      \* number of time.sleep calls made
    lastDelay,   \* argument of the latest time.sleep, in ticks (0: none yet)
    log,         \* the lines printed, as tags, in order
    svc,         \* what the service did on the latest request
    response,    \* the latest response text
    result,      \* the returned sequence of Task records
    raised,      \* TRUE when the call ended by an exception leaving generate
    \* ---- save_tasks_to_json (email_task_integration.py) ----
    file,        \* the content of the target file
    prevFile,    \* its content when the latest call began
    batch,       \* the tasks argument of the latest call
    saves,       \* number of save_tasks_to_json calls made
    saveRaised,  \* TRUE when the latest call ended by an exception
    \* ---- process_emails_in_batches (batch_processor.py) ----
    bpc,         \* position in process_emails_in_batches
    env,         \* which configuration values are present
    emails,      \* the fetched emails, newest first, by number
    batch_size,
    delay_between_emails,
    i,           \* outer loop variable (start index of the batch)
    j,           \* inner loop variable (index inside the batch)
    batch_count,
    batch_tasks,
    all_tasks,
    written,     \* the files save_tasks_to_json wrote, in order
    results,     \* what each completed extraction call returned, in call order
    retval,      \* what process_emails_in_batches returned (None until it does)
    events,      \* what the run did, in order: fetch, extract, sleep, save
    reported     \* the error or notice printed at startup, "" if none

genVars == <<pc, attempt, requests, sleeps, lastDelay, log, svc, response, result, raised>>
saveVars == <<file, prevFile, batch, saves, saveRaised>>
batchVars == <<bpc, env, emails, batch_size, delay_between_emails, i, j,
               batch_count, batch_tasks, all_tasks, written, results, retval, events, reported>>
vars == <<genVars, saveVars, batchVars>>

(***************************************************************************)
(* Bounds of the model.                                                    *)
(***************************************************************************)
MaxItems == 2        \* longest array of candidate objects in a response
JitterSteps == 1     \* random.uniform(0,1) takes the values k/JitterSteps
MaxExisting == 1     \* longest array the target file holds at first
MaxBatch == 2        \* longest batch handed to save_tasks_to_json
MaxSaves == 3        \* number of save_tasks_to_json calls in a run
MaxEmails == 3       \* most emails the mail service returns
MaxBatchSize == 2    \* largest batch_size
MaxDelay == 1        \* largest delay_between_emails
MaxFound == 1        \* most tasks extracted from one email

(***************************************************************************)
(* JSON values.  A field that is absent from an object, and JSON null,     *)
(* are the two tags below; every other string is text.                     *)
(***************************************************************************)
Absent == "<absent>"
Null == "<null>"

NullDeps == [shape |-> "null", items |-> <<>>]
ListDeps(s) == [shape |-> "list", items |-> s]
OtherDeps == [shape |-> "other", items |-> <<>>]

Obj(d, dl, t, deps, r) ==
    [isMap |-> TRUE, description |-> d, deadline |-> dl, task_type |-> t,
     dependencies |-> deps, responsible |-> r]
NotAMap ==
    [isMap |-> FALSE, description |-> Absent, deadline |-> Null, task_type |-> Absent,
     dependencies |-> NullDeps, responsible |-> Null]

TaskType == {"meeting_scheduling", "reminder", "to_do_item"}

Descriptions == {Absent, "", "A"}
TypeTags == TaskType \cup {Absent, "urgent"}

\* The candidate objects the service may put in its array.
RawObjects ==
    {Obj("A", Null, t, NullDeps, Null) : t \in TypeTags}
    \cup {Obj(d, Null, "reminder", NullDeps, Null) : d \in Descriptions}
    \cup {Obj("A", "Friday", "to_do_item", ListDeps(<<"x">>), "bob"),
          Obj("A", Null, "reminder", OtherDeps, Null),
          NotAMap}

RawLists == UNION {[1..n -> RawObjects] : n \in 0..MaxItems}

\* Response texts: not JSON; a JSON scalar; a JSON array; a JSON object
\* without a "tasks" key; one whose "tasks" is an array; one whose "tasks" is
\* something else.
Text(k, has, isList, xs) == [kind |-> k, hasTasks |-> has, tasksIsList |-> isList, items |-> xs]
NotJson == Text("notjson", FALSE, FALSE, <<>>)
Scalar == Text("scalar", FALSE, FALSE, <<>>)
DictNoTasks == Text("dict", FALSE, FALSE, <<>>)
DictTasksNotList == Text("dict", TRUE, FALSE, <<>>)
JsonList(xs) == Text("list", FALSE, FALSE, xs)
DictTasks(xs) == Text("dict", TRUE, TRUE, xs)

Responses ==
    {NotJson, Scalar, DictNoTasks, DictTasksNotList}
    \cup {JsonList(xs) : xs \in RawLists}
    \cup {DictTasks(xs) : xs \in RawLists}

(***************************************************************************)
(* Task: the pydantic model.  description and task_type are required,      *)
(* task_type is coerced into the TaskType enum, dependencies is            *)
(* Optional[List[str]].  No constraint is put on description's length.     *)
(***************************************************************************)
TaskValid(raw) ==
    /\ raw.isMap
    /\ raw.description # Absent
    /\ raw.task_type \in TaskType
    /\ raw.dependencies.shape \in {"null", "list"}

MkTask(raw) ==
    [description |-> raw.description, deadline |-> raw.deadline,
     task_type |-> raw.task_type, dependencies |-> raw.dependencies,
     responsible |-> raw.responsible]

MkTasks(xs) == [k \in 1..Len(xs) |-> MkTask(xs[k])]

(***************************************************************************)
(* generate, lines 118-135: the inner try.  exc is the exception that      *)
(* leaves the inner try ("none" when it returns), ret the value returned,  *)
(* out the lines printed.                                                  *)
(***************************************************************************)
Returns(ts, lines) == [exc |-> "none", ret |-> ts, out |-> lines]
Throws(e) == [exc |-> e, ret |-> <<>>, out |-> <<>>]

UnexpectedLogSilent == <<>>

UnexpectedLog == <<"UnexpectedStructure">>

\* line 125: [Task(**task) for task in structured_response]
ListBranch(xs) ==
    IF \E k \in 1..Len(xs) : ~xs[k].isMap THEN Throws("TypeError")
    ELSE IF \E k \in 1..Len(xs) : ~TaskValid(xs[k]) THEN Throws("ValidationError")
    ELSE Returns(MkTasks(xs), <<>>)

\* lines 128-129: Tasks(**structured_response).tasks
DictBranchUnexpected(text) == Returns(<<>>, UnexpectedLog)

DictBranch(text) ==
    IF ~text.tasksIsList THEN Throws("ValidationError")
    ELSE IF \E k \in 1..Len(text.items) : ~TaskValid(text.items[k]) THEN Throws("ValidationError")
    ELSE Returns(MkTasks(text.items), <<>>)

ParseResponse(text) ==
    IF text.kind = "notjson" THEN Returns(<<>>, <<"CouldNotParse">>)
    ELSE IF text.kind = "list" THEN ListBranch(text.items)
    ELSE IF text.kind = "dict" /\ text.hasTasks THEN DictBranch(text)
    ELSE Returns(<<>>, UnexpectedLog)

(***************************************************************************)
(* generate, lines 101-103 and 137-153: the retry policy and the handlers. *)
(***************************************************************************)
max_retries == 5
base_delay == 2
RateLimitStatus == 429
ClientErrorStatuses == {400, 403, 429}

RECURSIVE Pow2(_)
Pow2(n) == IF n = 0 THEN 1 ELSE 2 * Pow2(n - 1)

\* line 140, in ticks of 1/JitterSteps second; jitter \in 0..JitterSteps
BackoffDelayLinear(a, jitter) == base_delay * JitterSteps + jitter

BackoffDelay(a, jitter) == base_delay * Pow2(a) * JitterSteps + jitter

\* line 139
RetryAllowed(a) == a < max_retries - 1

\* line 138
IsRateLimitAny(status) == TRUE

IsRateLimit(status) == status = RateLimitStatus

\* lines 149-153: except Exception
HandleExceptionPropagates(e) == [raised |-> TRUE, out |-> <<>>]

HandleException(e) == [raised |-> FALSE, out |-> <<"ErrorGenerating">>]

(***************************************************************************)
(* generate: one action per iteration of the loop of lines 105-153,        *)
(* according to what the service does with the request.                    *)
(***************************************************************************)
InitGenerate ==
    /\ pc = "requesting"
    /\ attempt = 0
    /\ requests = 0
    /\ sleeps = 0
    /\ lastDelay = 0
    /\ log = <<>>
    /\ svc = "none"
    /\ response = NotJson
    /\ result = <<>>
    /\ raised = FALSE
    /\ file = [kind |-> "missing", items |-> <<>>]
    /\ prevFile = file
    /\ batch = <<>>
    /\ saves = 0
    /\ saveRaised = FALSE
    /\ bpc = "returned"
    /\ env = [gemini_key |-> TRUE, nylas_key |-> TRUE, nylas_uri |-> TRUE, grant_id |-> TRUE]
    /\ emails = <<>>
    /\ batch_size = 1
    /\ delay_between_emails = 1
    /\ i = 0
    /\ j = 0
    /\ batch_count = 0
    /\ batch_tasks = <<>>
    /\ all_tasks = <<>>
    /\ written = <<>>
    /\ results = <<>>
    /\ retval = [isNone |-> TRUE, tasks |-> <<>>]
    /\ events = <<>>
    /\ reported = ""

\* The service answers with a text (lines 107-135, and 149-153 when the
\* inner try lets an exception through).
ServiceResponds ==
    /\ pc = "requesting"
    /\ \E text \in Responses :
        LET p == ParseResponse(text)
            h == HandleException(p.exc)
        IN  /\ response' = text
            /\ result' = p.ret
            /\ raised' = (p.exc # "none" /\ h.raised)
            /\ log' = log \o <<"MakingApiCall", "ApiCallSuccessful">> \o p.out
                          \o (IF p.exc = "none" THEN <<>> ELSE h.out)
    /\ svc' = "response"
    /\ requests' = requests + 1
    /\ pc' = "done"
    /\ UNCHANGED <<attempt, sleeps, lastDelay>>
    /\ UNCHANGED <<saveVars, batchVars>>

\* The service rejects the request with a ClientError (lines 137-148).
ServiceClientError ==
    /\ pc = "requesting"
    /\ \E status \in ClientErrorStatuses :
      /\ IF IsRateLimit(status)
        THEN IF RetryAllowed(attempt)
             THEN \E jitter \in 0..JitterSteps :
                    /\ lastDelay' = BackoffDelay(attempt, jitter)
                    /\ sleeps' = sleeps + 1
                    /\ log' = log \o <<"MakingApiCall", "RateLimitRetry">>
                    /\ attempt' = attempt + 1
                    \* line 105 ends the loop and line 155 returns [] when
                    \* the range is used up
                    /\ pc' = IF attempt + 1 < max_retries THEN "requesting" ELSE "done"
             ELSE /\ log' = log \o <<"MakingApiCall", "MaxRetriesReached">>
                  /\ pc' = "done"
                  /\ UNCHANGED <<attempt, sleeps, lastDelay>>
        ELSE /\ log' = log \o <<"MakingApiCall", "ApiError">>
             /\ pc' = "done"
             /\ UNCHANGED <<attempt, sleeps, lastDelay>>
      /\ svc' = IF status = RateLimitStatus THEN "rate_limited" ELSE "client_error"
    /\ requests' = requests + 1
    /\ result' = <<>>
    /\ UNCHANGED <<response, raised>>
    /\ UNCHANGED <<saveVars, batchVars>>

\* The request ends with any other exception: a server error, a network
\* failure, a response without candidates (lines 108-115, 149-153).
ServiceFails ==
    /\ pc = "requesting"
    /\ LET h == HandleException("Exception")
       IN  /\ raised' = h.raised
           /\ log' = log \o <<"MakingApiCall">> \o h.out
    /\ svc' = "failure"
    /\ requests' = requests + 1
    /\ result' = <<>>
    /\ pc' = "done"
    /\ UNCHANGED <<attempt, sleeps, lastDelay, response>>
    /\ UNCHANGED <<saveVars, batchVars>>

NextGenerate == ServiceResponds \/ ServiceClientError \/ ServiceFails

(***************************************************************************)
(* save_tasks_to_json (email_task_integration.py, lines 121-142).          *)
(***************************************************************************)
TaskA == MkTask(Obj("A", Null, "reminder", NullDeps, Null))
TaskB == MkTask(Obj("B", "Friday", "to_do_item", ListDeps(<<"x">>), "bob"))
SomeTasks == {TaskA, TaskB}

SeqsUpTo(S, n) == UNION {[1..m -> S] : m \in 0..n}

\* line 124: task.dict(); json.dump writes the TaskType member as its value
TaskDict(t) ==
    [description |-> t.description, deadline |-> t.deadline,
     task_type |-> t.task_type, dependencies |-> t.dependencies,
     responsible |-> t.responsible]

TaskDicts(ts) == [k \in 1..Len(ts) |-> TaskDict(ts[k])]

\* The target file: missing; text that is not JSON; a JSON array of
\* objects; any other JSON value.
FileOf(k, xs) == [kind |-> k, items |-> xs]
FileMissing == FileOf("missing", <<>>)
FileNotJson == FileOf("notjson", <<>>)
FileOtherJson == FileOf("other", <<>>)
FileArray(xs) == FileOf("array", xs)

\* lines 127-133: what existing_tasks is after the load
LoadExisting(f) ==
    IF f.kind = "array" THEN [isList |-> TRUE, items |-> f.items]
    ELSE IF f.kind = "other" THEN [isList |-> FALSE, items |-> <<>>]
    ELSE [isList |-> TRUE, items |-> <<>>]

\* line 136: all_tasks = existing_tasks + tasks_dict
MergePrepends(existing, tasks_dict) == tasks_dict \o existing

Merge(existing, tasks_dict) == existing \o tasks_dict

\* lines 121-142: the file after the call, and whether the call raised
SaveTasksToJson(f, tasks) ==
    LET existing == LoadExisting(f)
    IN  IF existing.isList
        THEN [file |-> FileArray(Merge(existing.items, TaskDicts(tasks))), raised |-> FALSE]
        ELSE [file |-> f, raised |-> TRUE]   \* TypeError at line 136, nothing written

InitSave ==
    /\ file \in {FileMissing, FileNotJson, FileOtherJson}
                \cup {FileArray(xs) : xs \in SeqsUpTo({TaskDict(t) : t \in SomeTasks}, MaxExisting)}
    /\ prevFile = file
    /\ batch = <<>>
    /\ saves = 0
    /\ saveRaised = FALSE
    /\ pc = "done"
    /\ attempt = 0
    /\ requests = 0
    /\ sleeps = 0
    /\ lastDelay = 0
    /\ log = <<>>
    /\ svc = "none"
    /\ response = NotJson
    /\ result = <<>>
    /\ raised = FALSE
    /\ bpc = "returned"
    /\ env = [gemini_key |-> TRUE, nylas_key |-> TRUE, nylas_uri |-> TRUE, grant_id |-> TRUE]
    /\ emails = <<>>
    /\ batch_size = 1
    /\ delay_between_emails = 1
    /\ i = 0
    /\ j = 0
    /\ batch_count = 0
    /\ batch_tasks = <<>>
    /\ all_tasks = <<>>
    /\ written = <<>>
    /\ results = <<>>
    /\ retval = [isNone |-> TRUE, tasks |-> <<>>]
    /\ events = <<>>
    /\ reported = ""

Save ==
    /\ saves < MaxSaves
    /\ \E tasks \in SeqsUpTo(SomeTasks, MaxBatch) :
        LET r == SaveTasksToJson(file, tasks)
        IN  /\ batch' = tasks
            /\ file' = r.file
            /\ saveRaised' = r.raised
    /\ prevFile' = file
    /\ saves' = saves + 1
    /\ UNCHANGED <<genVars, batchVars>>

NextSave == Save

(***************************************************************************)
(* process_emails_in_batches (batch_processor.py, lines 16-93).            *)
(***************************************************************************)
Env == [gemini_key : BOOLEAN, nylas_key : BOOLEAN, nylas_uri : BOOLEAN, grant_id : BOOLEAN]

Event(op, arg) == [op |-> op, arg |-> arg]

\* line 29
GrantIdMissing(e) == ~e.grant_id

\* line 72
SleepAfterEmail(jj, batchLen) == jj < batchLen - 1

\* line 84
SleepAfterBatchAlways(ii, bs, n) == TRUE

SleepAfterBatch(ii, bs, n) == ii + bs < n

\* line 85
BatchDelay(d) == d * 2

\* What extraction yields for email k when it finds n tasks: the records
\* generate returns, told apart by the email they come from.
EmailNames == <<"e1", "e2", "e3", "e4", "e5", "e6", "e7", "e8">>
Found(k, n) == [m \in 1..n |-> MkTask(Obj(EmailNames[k], Null, "to_do_item", NullDeps, Null))]

Min(a, b) == IF a < b THEN a ELSE b

\* line 46: len(emails[i:i+batch_size])
BatchLen(ii, bs, n) == Min(ii + bs, n) - ii

InitBatch ==
    /\ bpc = "start"
    /\ env \in Env
    /\ emails = <<>>
    /\ batch_size \in 0..MaxBatchSize
    /\ delay_between_emails \in 1..MaxDelay
    /\ i = 0
    /\ j = 0
    /\ batch_count = 0
    /\ batch_tasks = <<>>
    /\ all_tasks = <<>>
    /\ written = <<>>
    /\ results = <<>>
    /\ retval = [isNone |-> TRUE, tasks |-> <<>>]
    /\ events = <<>>
    /\ reported = ""
    /\ pc = "done"
    /\ attempt = 0
    /\ requests = 0
    /\ sleeps = 0
    /\ lastDelay = 0
    /\ log = <<>>
    /\ svc = "none"
    /\ response = NotJson
    /\ result = <<>>
    /\ raised = FALSE
    /\ file = FileMissing
    /\ prevFile = FileMissing
    /\ batch = <<>>
    /\ saves = 0
    /\ saveRaised = FALSE

\* lines 25-31: the grant id is missing
StartNoGrant ==
    /\ bpc = "start"
    /\ GrantIdMissing(env)
    /\ reported' = "NYLAS_GRANT_ID not found"
    /\ bpc' = "returned"
    /\ UNCHANGED <<env, emails, batch_size, delay_between_emails, i, j, batch_count,
                   batch_tasks, all_tasks, written, results, retval, events>>
    /\ UNCHANGED <<genVars, saveVars>>

\* lines 25-45: the mail fetch, and the entry into the loop
StartFetch ==
    /\ bpc = "start"
    /\ ~GrantIdMissing(env)
    /\ events' = Append(events, Event("fetch", 0))
    /\ \/ \* nylas.messages.list raises
          /\ bpc' = "crashed"
          /\ UNCHANGED <<emails, reported>>
       \/ \* no emails (lines 35-37)
          /\ emails' = <<>>
          /\ reported' = "No emails found to process"
          /\ bpc' = "returned"
       \/ \E n \in 1..MaxEmails :
          /\ emails' = [k \in 1..n |-> k]
          /\ UNCHANGED reported
          \* range(0, len(emails), 0) raises ValueError at line 45
          /\ bpc' = IF batch_size = 0 THEN "crashed" ELSE "email"
    /\ UNCHANGED <<env, batch_size, delay_between_emails, i, j, batch_count,
                   batch_tasks, all_tasks, written, results, retval>>
    /\ UNCHANGED <<genVars, saveVars>>

\* lines 46-50 are folded into the first email of a batch: j = 0 starts it.
\* lines 53-74: one email of the batch
ProcessEmail ==
    /\ bpc = "email"
    /\ LET n == BatchLen(i, batch_size, Len(emails))
           first == (j = 0)
           sofar == IF first THEN <<>> ELSE batch_tasks
       IN  /\ batch_count' = IF first THEN batch_count + 1 ELSE batch_count
           /\ \/ \* generate raises before its loop: the client cannot be built
                 /\ ~env.gemini_key
                 /\ events' = Append(events, Event("extract", emails[i + j + 1]))
                 /\ bpc' = "crashed"
                 /\ UNCHANGED <<batch_tasks, j, results>>
              \/ \E found \in 0..MaxFound :
                 /\ batch_tasks' = sofar \o Found(emails[i + j + 1], found)
                 /\ results' = Append(results, Found(emails[i + j + 1], found))
                 /\ events' = Append(events, Event("extract", emails[i + j + 1]))
                               \o (IF SleepAfterEmail(j, n)
                                   THEN <<Event("sleep", delay_between_emails)>> ELSE <<>>)
                 /\ j' = j + 1
                 /\ bpc' = IF j + 1 < n THEN "email" ELSE "batch_end"
    /\ UNCHANGED <<env, emails, batch_size, delay_between_emails, i, all_tasks,
                   written, retval, reported>>
    /\ UNCHANGED <<genVars, saveVars>>

\* lines 76-87, and lines 89-93 after the last batch
EndBatch ==
    /\ bpc = "batch_end"
    /\ LET saving == batch_tasks # <<>>
           sleeping == SleepAfterBatch(i, batch_size, Len(emails))
       IN  /\ all_tasks' = IF saving THEN all_tasks \o batch_tasks ELSE all_tasks
           /\ written' = IF saving
                         THEN Append(written, SaveTasksToJson(FileMissing, batch_tasks).file.items)
                         ELSE written
           /\ events' = events
                        \o (IF saving THEN <<Event("save", batch_count)>> ELSE <<>>)
                        \o (IF sleeping THEN <<Event("sleep", BatchDelay(delay_between_emails))>> ELSE <<>>)
           \* line 93: return all_tasks
           /\ retval' = IF i + batch_size < Len(emails)
                        THEN retval
                        ELSE [isNone |-> FALSE,
                              tasks |-> IF saving THEN all_tasks \o batch_tasks ELSE all_tasks]
    /\ i' = i + batch_size
    /\ j' = 0
    /\ bpc' = IF i + batch_size < Len(emails) THEN "email" ELSE "returned"
    /\ UNCHANGED <<env, emails, batch_size, delay_between_emails, batch_count,
                   batch_tasks, results, reported>>
    /\ UNCHANGED <<genVars, saveVars>>

NextBatch == StartNoGrant \/ StartFetch \/ ProcessEmail \/ EndBatch

(***************************************************************************)
(* Properties of generate.                                                 *)
(***************************************************************************)
Done == pc = "done"
Responded == Done /\ svc = "response"

\* The response decodes to an array of candidates, bare or under "tasks".
IsTaskArray(text) ==
    \/ text.kind = "list"
    \/ text.kind = "dict" /\ text.hasTasks /\ text.tasksIsList

\* The response is not JSON, or is neither an array nor an object whose
\* "tasks" is an array.
IsMalformed(text) == ~IsTaskArray(text)

AllValid(xs) == \A k \in 1..Len(xs) : TaskValid(xs[k])

\* The record the candidate object stands for, field by field.
SameFields(t, raw) ==
    /\ t.description = raw.description
    /\ t.deadline = raw.deadline
    /\ t.task_type = raw.task_type
    /\ t.dependencies = raw.dependencies
    /\ t.responsible = raw.responsible

RecordsOf(ts, xs) ==
    /\ Len(ts) = Len(xs)
    /\ \A k \in 1..Len(xs) : SameFields(ts[k], xs[k])

\* C1: when the service returns an array (bare or under "tasks") holding
\* both valid candidates and at least one that fails Task validation, the
\* call returns the records of the valid candidates, in order, and nothing
\* else.
C1_InvalidDroppedValidKept ==
    (/\ Responded
     /\ IsTaskArray(response)
     /\ \E k \in 1..Len(response.items) : TaskValid(response.items[k])
     /\ \E k \in 1..Len(response.items) : ~TaskValid(response.items[k]))
    => /\ ~raised
       /\ RecordsOf(result, SelectSeq(response.items, TaskValid))

\* The end of a call whose every request was rejected with status 429.
C2_ExhaustedEnd ==
    (Done /\ svc = "rate_limited")
    => /\ requests = 5
       /\ sleeps = 4
       /\ result = <<>>
       /\ ~raised

\* A sleep: as long as the formula says, and longer than the one before.
C2_SleepStep ==
    (sleeps' = sleeps + 1)
    => /\ lastDelay' >= 2 * Pow2(sleeps) * JitterSteps
       /\ lastDelay' <= 2 * Pow2(sleeps) * JitterSteps + JitterSteps
       /\ lastDelay' > lastDelay

\* C2: when every request is rejected with status 429 the call makes exactly
\* 5 requests and 4 sleeps and returns an empty sequence without raising;
\* the sleep after 0-based attempt k lasts 2 * 2^k seconds plus a jitter in
\* [0,1], and each sleep is strictly longer than the one before.
C2_RateLimitBackoff == [](C2_ExhaustedEnd) /\ [][C2_SleepStep]_vars

C2_Witness == Done /\ svc = "rate_limited" /\ requests = 5 /\ sleeps = 4

\* The counts stay in their bounds, and no end of the call raises.
C3_Bounded ==
    /\ requests <= 5
    /\ sleeps <= 4
    /\ Done => ~raised
    /\ (Done /\ svc \in {"rate_limited", "client_error", "failure"}) => result = <<>>
    /\ (Responded /\ IsMalformed(response)) => result = <<>>

\* What one step may do after what the service did last.
C3_Step ==
    /\ (requests' # requests /\ requests > 0) => svc = "rate_limited"
    /\ (sleeps' # sleeps) => svc' = "rate_limited"
    /\ (requests > 0 /\ svc # "rate_limited") => (requests' = requests /\ sleeps' = sleeps)

C4_ValidArrayReturned ==
    (Responded /\ IsTaskArray(response) /\ AllValid(response.items))
    => /\ ~raised
       /\ RecordsOf(result, response.items)

C4_Witness ==
    /\ Responded
    /\ response.kind = "dict"
    /\ Len(response.items) = 2
    /\ AllValid(response.items)
    /\ response.items[1] # response.items[2]
    /\ Len(result) = 2

\* C5: every record the call returns has a task_type among
\* meeting_scheduling, reminder, to_do_item and a description that is not
\* empty.
C5_ClosedTypeNonEmptyDescription ==
    Done => \A k \in 1..Len(result) :
                /\ result[k].task_type \in {"meeting_scheduling", "reminder", "to_do_item"}
                /\ result[k].description # ""

\* Which of the three outcomes that return an empty sequence happened.
Outcome ==
    IF svc = "rate_limited" THEN "exhausted"
    ELSE IF svc = "response" /\ IsMalformed(response) THEN "malformed"
    ELSE IF svc = "response" /\ response.items = <<>> THEN "zero_tasks"
    ELSE "other"

\* What an operator reads off the printed lines alone.
LogClass(lines) ==
    LET n == Len(lines)
    IN  IF n = 0 THEN "other"
        ELSE IF lines[n] = "MaxRetriesReached" THEN "exhausted"
        ELSE IF lines[n] = "ApiCallSuccessful" THEN "zero_tasks"
        ELSE IF /\ n >= 2
                /\ lines[n - 1] = "ApiCallSuccessful"
                /\ lines[n] \in {"CouldNotParse", "UnexpectedStructure", "ErrorGenerating"}
             THEN "malformed"
        ELSE "other"

\* C8: a malformed or unexpectedly shaped response, exhausted retries and a
\* well-formed response with zero tasks all return the empty sequence, and
\* the lines the call printed tell which of the three happened.
C8_LogTellsOutcome ==
    (Done /\ Outcome # "other")
    => /\ result = <<>>
       /\ LogClass(log) = Outcome

C8_Witness == Responded /\ response = Scalar /\ result = <<>>

\* C9: when the response text is not JSON, or decodes to something that is
\* neither an array nor an object whose "tasks" is an array, the call
\* returns an empty sequence and does not raise.
C9_MalformedIsEmpty ==
    (Responded /\ IsMalformed(response))
    => /\ result = <<>>
       /\ ~raised

C9_Witness == Responded /\ response = DictTasksNotList /\ result = <<>>

(***************************************************************************)
(* Properties of save_tasks_to_json.                                       *)
(***************************************************************************)
\* C6: when the file held a JSON array before a save, it holds afterwards
\* the same records followed by the saved batch's records, in order: no
\* record written earlier is removed, changed or moved.
C6_SaveAppends ==
    (saves > 0 /\ prevFile.kind = "array")
    => /\ ~saveRaised
       /\ file.kind = "array"
       /\ Len(file.items) = Len(prevFile.items) + Len(batch)
       /\ \A k \in 1..Len(prevFile.items) : file.items[k] = prevFile.items[k]
       /\ \A k \in 1..Len(batch) :
            SameFields(file.items[Len(prevFile.items) + k], batch[k])

C6_Witness ==
    /\ saves >= 2
    /\ prevFile.kind = "array"
    /\ Len(prevFile.items) >= 1
    /\ Len(batch) >= 1
    /\ file.items[1] # file.items[Len(file.items)]

(***************************************************************************)
(* Properties of process_emails_in_batches.                                *)
(***************************************************************************)
ConfigMissing ==
    ~(env.gemini_key /\ env.nylas_key /\ env.nylas_uri /\ env.grant_id)

\* C7: when a required configuration value is missing the run stops at
\* startup: it reports the condition, and fetches no mail, extracts from no
\* email and writes no file.
C7_ConfigMissingStopsAtStartup ==
    ConfigMissing
    => /\ events = <<>>
       /\ written = <<>>
       /\ bpc # "start" => (bpc = "returned" /\ reported # "")

IsExtract(p) == events[p].op = "extract"
IsSleep(p) == events[p].op = "sleep"

\* Emails are numbered from 1; the batch of email k.
BatchOf(k) == (k - 1) \div batch_size

\* C10: with batch_size >= 1, between two consecutive extraction calls there
\* is one sleep, of delay_between_emails seconds inside a batch and twice
\* that across a batch boundary, and no sleep follows the extraction of the
\* last email.
C10_SpacingBetweenExtractions ==
    batch_size >= 1
    => /\ \A p, q \in 1..Len(events) :
            (/\ p < q
             /\ IsExtract(p)
             /\ IsExtract(q)
             /\ \A r \in (p + 1)..(q - 1) : ~IsExtract(r))
            => /\ Cardinality({r \in (p + 1)..(q - 1) : IsSleep(r)}) = 1
               /\ \A r \in (p + 1)..(q - 1) :
                    IsSleep(r) =>
                        /\ events[r].arg >= delay_between_emails
                        /\ events[r].arg =
                             IF BatchOf(events[p].arg) = BatchOf(events[q].arg)
                             THEN delay_between_emails
                             ELSE 2 * delay_between_emails
       /\ \A p, q \in 1..Len(events) :
            (p < q /\ IsExtract(p) /\ events[p].arg = Len(emails)) => ~IsSleep(q)

C10_Witness ==
    /\ bpc = "returned"
    /\ batch_size = 2
    /\ Len(emails) = 3
    /\ Cardinality({p \in 1..Len(events) : IsExtract(p)}) = 3
    /\ Cardinality({p \in 1..Len(events) : IsSleep(p)}) = 2

\* The run is over: process_emails_in_batches returned, or an exception
\* left it.
Ended == bpc \in {"returned", "crashed"}

IsSave(p) == events[p].op = "save"

\* The emails that received an extraction call, in call order.
Extracted ==
    LET calls == SelectSeq(events, LAMBDA e : e.op = "extract")
    IN  [k \in 1..Len(calls) |-> calls[k].arg]

RECURSIVE Concat(_)
Concat(ss) == IF ss = <<>> THEN <<>> ELSE Head(ss) \o Concat(Tail(ss))

\* What the extraction calls of the emails of batch b (0-based) returned.
BatchResults(b) ==
    Concat(SelectSeq([k \in 1..Len(results) |-> IF BatchOf(k) = b THEN results[k] ELSE <<>>],
                     LAMBDA r : r # <<>>))

\* Batch b was handed to save_tasks_to_json exactly once, with its tasks,
\* after its own emails and before those of any later batch.
SavedOnce(b) ==
    /\ Cardinality({p \in 1..Len(events) : IsSave(p) /\ events[p].arg = b + 1}) = 1
    /\ \A p \in 1..Len(events) :
        (IsSave(p) /\ events[p].arg = b + 1)
        => /\ \A q \in 1..Len(events) :
                IsExtract(q) => IF BatchOf(events[q].arg) <= b THEN q < p ELSE p < q
           /\ LET nth == Cardinality({q \in 1..p : IsSave(q)})
              IN  /\ nth <= Len(written)
                  /\ RecordsOf(written[nth], BatchResults(b))

NeverSaved(b) == \A p \in 1..Len(events) : ~(IsSave(p) /\ events[p].arg = b + 1)

\* C11: every fetched email receives exactly one extraction call, in fetched
\* order, whatever the earlier extractions gave; the function returns the
\* concatenation of the per-email results in that order; and every batch
\* with at least one task is handed to save_tasks_to_json exactly once,
\* before any email of the next batch is processed.
C11_EveryEmailExtractedOnce ==
    (Ended /\ batch_size >= 1 /\ Len(emails) >= 1)
    => /\ Extracted = emails
       /\ Len(results) = Len(emails)
       /\ ~retval.isNone
       /\ retval.tasks = Concat(results)
       /\ \A b \in 0..BatchOf(Len(emails)) :
            IF BatchResults(b) # <<>> THEN SavedOnce(b) ELSE NeverSaved(b)

(***************************************************************************)
(* The specifications.  Each leaves the other two parts at rest.           *)
(***************************************************************************)
SpecGenerate == InitGenerate /\ [][NextGenerate]_vars

\* generate runs to its end: every request returns or raises, and every
\* sleep ends.
SpecGenerateFair == SpecGenerate /\ WF_vars(NextGenerate)

SpecSave == InitSave /\ [][NextSave]_vars

SpecBatch == InitBatch /\ [][NextBatch]_vars

====
